---- MODULE Spec2Model ----
(***************************************************************************)
(* rollback-controller: the debounce/dedup tracker of main.go              *)
(* (RollbackController.handleResource), the remediation client             *)
(* (createGitlabRevertMR) and the reconciliation adapter                   *)
(* (GenericReconciler.Reconcile).                                          *)
(*                                                                         *)
(* Time is counted in whole seconds.  time.Now() is the variable now,      *)
(* time.Since(t) is now - t.                                               *)
(***************************************************************************)
EXTENDS Integers, Sequences, FiniteSets, TLC

\* ------------------------------------------------------------------ bounds
MaxTime == 3
MaxDebounce == 2
MaxConds == 1
MaxScan == 2
MaxBoots == 2

\* ------------------------------------------------------------ input domains
SHAs == {"s1", "s2"}
Revisions == SHAs \cup {""}
Names == {"a", "b"}
Workers == {"w1", "w2"}

\* DEBOUNCE_SECONDS is parsed with strconv.Atoi: any integer, default 300.
DebounceValues == {0, MaxDebounce}

\* REVERT_MODE: "echo" is the dry run, anything else is live.
RevertModes == {"echo", ""}

\* What the live HTTP path of createGitlabRevertMR can end in.
NetResults == {"reqerr", "neterr", "2xx", "non2xx"}

CondTypes == {"Ready", "Healthy"}
CondStatuses == {"True", "False", "Unknown"}
Conditions == [type : CondTypes, status : CondStatuses]
CondLists == UNION {[1 .. n -> Conditions] : n \in 0 .. MaxConds}

\* r.Get leaves the zero value in the object when it returns an error.
NotFoundKs == [found |-> FALSE, attempted |-> "", applied |-> "", conditions |-> <<>>]
NotFoundHr == [found |-> FALSE, attempted |-> "", conditions |-> <<>>]
KsFetch == {NotFoundKs} \cup
           [found : {TRUE}, attempted : Revisions, applied : Revisions, conditions : CondLists]
HrFetch == {NotFoundHr} \cup
           [found : {TRUE}, attempted : Revisions, conditions : CondLists]

\* ------------------------------------------------------------------- state
VARIABLES
    now,             \* the clock read by time.Now() / time.Since()
    DebounceSeconds, \* RollbackController.DebounceSeconds
    revertMode,      \* the process environment's REVERT_MODE
    pendingSHAs,     \* map SHA -> time first seen failing
    completedSHAs,   \* keys of completedSHAs (every stored value is true)
    revertCalls,     \* SHA -> number of createGitlabRevertMR invocations
    httpPosts,       \* SHA -> number of httpClient.Do calls
    last,            \* what the Reconcile made at this instant saw and returned
    cancelled,       \* SHAs whose pending entry a healthy evaluation removed
    workers,         \* concurrent reconcile workers: position and locals
    fatal,           \* the Go runtime aborted on a concurrent map access
    due,             \* resource name -> time of the requeue the framework holds
    cluster,         \* resource name -> the objects the API server holds for it
    boot             \* number and time of the starts of the process

vars == <<now, DebounceSeconds, revertMode, pendingSHAs, completedSHAs,
          revertCalls, httpPosts, last, cancelled, workers, fatal, due,
          cluster, boot>>

\* ------------------------------------------------------------- map helpers
MapDeleteClears(m, k) == <<>>

MapDelete(m, k) == [x \in (DOMAIN m) \ {k} |-> m[x]]

MapPut(m, k, v) == [x \in (DOMAIN m) \cup {k} |-> IF x = k THEN v ELSE m[x]]

\* ---------------------------------------------------- createGitlabRevertMR
createGitlabRevertMRIgnoresMode(mode, net) ==
    [outcome |-> IF mode = "echo" THEN "echo" ELSE net, posted |-> net # "reqerr"]

\* The outcome of one call; nothing is returned to the caller.
createGitlabRevertMR(mode, net) ==
    IF mode = "echo"
    THEN [outcome |-> "echo", posted |-> FALSE]
    ELSE [outcome |-> net, posted |-> net # "reqerr"]

\* --------------------------------------------------------- handleResource
NoRevisionTracksEmpty(sha) == FALSE

NoRevision(sha) == sha = ""

AlreadyRevertedForgets(completed, sha) == FALSE

AlreadyReverted(completed, sha) == sha \in completed

Since(t, clock) == clock - t

DebounceElapsedStrict(elapsed, debounce) == elapsed > debounce

DebounceElapsed(elapsed, debounce) == elapsed >= debounce

MarkCompletedOnSuccess(completed, sha, outcome) ==
    IF outcome \in {"echo", "2xx"} THEN completed \cup {sha} ELSE completed

\* completedSHAs[sha] = true follows the call whatever its outcome was.
MarkCompleted(completed, sha, outcome) == completed \cup {sha}

ForgetPendingKeeps(pending, sha) == pending

ForgetPending(pending, sha) == MapDelete(pending, sha)

FirstSeen(pending, sha, clock) == MapPut(pending, sha, clock)

Keep(pending, completed) ==
    [pending |-> pending, completed |-> completed, delay |-> 0,
     fired |-> FALSE, outcome |-> "none", posted |-> FALSE]

StillWaitingResets(pending, completed, sha, clock, debounce) ==
    [Keep(MapPut(pending, sha, clock), completed) EXCEPT !.delay = debounce]

\* lines 71-72: the entry is left as it is and the rest of the window is
\* returned.
StillWaiting(pending, completed, sha, clock, debounce) ==
    [Keep(pending, completed) EXCEPT
        !.delay = debounce - Since(pending[sha], clock)]

Status(pending, completed, sha) ==
    IF sha \in completed /\ sha \in DOMAIN pending THEN "both"
    ELSE IF sha \in completed THEN "completed"
    ELSE IF sha \in DOMAIN pending THEN "pending"
    ELSE "untracked"

FailingBranch(pending, completed, sha, clock, debounce, mode, net) ==
    IF AlreadyReverted(completed, sha)
    THEN Keep(pending, completed)
    ELSE IF sha \in DOMAIN pending
    THEN LET elapsed == Since(pending[sha], clock)
         IN  IF DebounceElapsed(elapsed, debounce)
             THEN LET call == createGitlabRevertMR(mode, net)
                  IN  [pending |-> ForgetPending(pending, sha),
                       completed |-> MarkCompleted(completed, sha, call.outcome),
                       delay |-> 0, fired |-> TRUE,
                       outcome |-> call.outcome, posted |-> call.posted]
             ELSE StillWaiting(pending, completed, sha, clock, debounce)
    ELSE [Keep(FirstSeen(pending, sha, clock), completed) EXCEPT !.delay = debounce]

HealthyBranchKeeps(pending, completed, sha) == Keep(pending, completed)

HealthyBranchRearms(pending, completed, sha) ==
    Keep(MapDelete(pending, sha), completed \ {sha})

HealthyBranch(pending, completed, sha) ==
    Keep(MapDelete(pending, sha), completed)

handleResource(pending, completed, sha, ready, clock, debounce, mode, net) ==
    IF NoRevision(sha)
    THEN Keep(pending, completed)
    ELSE IF ~ready
    THEN FailingBranch(pending, completed, sha, clock, debounce, mode, net)
    ELSE HealthyBranch(pending, completed, sha)

\* -------------------------------------------------------------- Reconcile
IsReadyStrict(conds) ==
    \E i \in DOMAIN conds : conds[i].type = "Ready" /\ conds[i].status = "True"

\* lines 178-182 and 192-196: ready starts true; the loop visits every
\* condition in order and sets ready to false at each Ready/False one.
RECURSIVE ScanConditions(_, _, _)
ScanConditions(conds, i, ready) ==
    IF i > Len(conds)
    THEN ready
    ELSE ScanConditions(conds, i + 1,
                        IF conds[i].type = "Ready" /\ conds[i].status = "False"
                        THEN FALSE
                        ELSE ready)

IsReady(conds) == ScanConditions(conds, 1, TRUE)

KustomizationShaAppliedFirst(ks) ==
    IF ks.applied = "" THEN ks.attempted ELSE ks.applied

\* lines 172-177: sha := LastAttemptedRevision, LastAppliedRevision if empty
KustomizationSha(ks) ==
    LET sha == ks.attempted
    IN  IF sha = "" THEN ks.applied ELSE sha

HelmReleaseSha(hr) == hr.attempted

ProbeHelmFirst(ks, hr) ==
    IF hr.found
    THEN [kind |-> "HelmRelease", sha |-> HelmReleaseSha(hr),
          ready |-> IsReady(hr.conditions)]
    ELSE IF ks.found
    THEN [kind |-> "Kustomization", sha |-> KustomizationSha(ks),
          ready |-> IsReady(ks.conditions)]
    ELSE [kind |-> "none", sha |-> "", ready |-> TRUE]

\* The object Reconcile evaluates: the Kustomization when its Get succeeds,
\* else the HelmRelease when its Get succeeds, else nothing.
Probe(ks, hr) ==
    IF ks.found
    THEN [kind |-> "Kustomization", sha |-> KustomizationSha(ks),
          ready |-> IsReady(ks.conditions)]
    ELSE IF hr.found
    THEN [kind |-> "HelmRelease", sha |-> HelmReleaseSha(hr),
          ready |-> IsReady(hr.conditions)]
    ELSE [kind |-> "none", sha |-> "", ready |-> TRUE]

\* What a trigger can find in the cluster, as Reconcile sees it.
Observations == {Probe(ks, hr) : ks \in KsFetch, hr \in HrFetch}

Bump(f, k, yes) == IF yes THEN [f EXCEPT ![k] = @ + 1] ELSE f

\* One trigger for resource req that finds observation got; net is what the
\* network does if the revert is posted (drawn only when the revert fires).
ReconcileWith(req, got, net) ==
    LET res == IF got.kind = "none"
               THEN Keep(pendingSHAs, completedSHAs)
               ELSE handleResource(pendingSHAs, completedSHAs, got.sha, got.ready,
                                   now, DebounceSeconds, revertMode, net)
        pre == Status(pendingSHAs, completedSHAs, got.sha)
    IN  /\ net # "2xx" => res.fired
        /\ pendingSHAs' = res.pending
        /\ completedSHAs' = res.completed
        /\ revertCalls' = Bump(revertCalls, got.sha, res.fired)
        /\ httpPosts' = Bump(httpPosts, got.sha, res.posted)
        /\ cancelled' = IF got.ready /\ DOMAIN res.pending # DOMAIN pendingSHAs
                        THEN cancelled \cup {got.sha}
                        ELSE cancelled
        /\ last' = [req |-> req, kind |-> got.kind,
                    sha |-> got.sha, ready |-> got.ready, pre |-> pre,
                    delay |-> res.delay, fired |-> res.fired,
                    outcome |-> res.outcome]

Reconcile(req) ==
    \E got \in Observations, net \in NetResults :
        /\ ReconcileWith(req, got, net)
        /\ UNCHANGED <<now, DebounceSeconds, revertMode, workers, fatal, due, cluster, boot>>

\* No Reconcile has run since the clock last moved.
NoEvaluation ==
    [req |-> "", kind |-> "idle", sha |-> "",
     ready |-> TRUE, pre |-> "untracked", delay |-> 0, fired |-> FALSE,
     outcome |-> "none"]

Tick ==
    /\ now < MaxTime
    /\ now' = now + 1
    /\ last' = NoEvaluation
    /\ UNCHANGED <<DebounceSeconds, revertMode, pendingSHAs, completedSHAs,
                   revertCalls, httpPosts, cancelled, workers, fatal, due, cluster, boot>>

\* --------------------------------------------------------- specification
\* Nothing is stored under a name: both Gets of Reconcile fail.
Absent == [ks |-> NotFoundKs, hr |-> NotFoundHr]

\* The process has been started once, at time 0.
FirstBoot == [n |-> 1, at |-> 0]

Idle == [pc |-> "idle", req |-> "a", sha |-> "", ready |-> TRUE, t |-> 0]

Init ==
    /\ now = 0
    /\ DebounceSeconds \in DebounceValues
    /\ revertMode \in RevertModes
    /\ pendingSHAs = <<>>
    /\ completedSHAs = {}
    /\ revertCalls = [s \in Revisions |-> 0]
    /\ httpPosts = [s \in Revisions |-> 0]
    /\ last = NoEvaluation
    /\ cancelled = {}
    /\ workers = [w \in Workers |-> Idle]
    /\ fatal = FALSE
    /\ due = [n \in Names |-> 0 - 1]
    /\ cluster = [n \in Names |-> Absent]
    /\ boot = FirstBoot

Next ==
    \/ \E req \in Names : Reconcile(req)
    \/ Tick

Spec == Init /\ [][Next]_vars

\* ------------------------------------------------ the adapter on a cluster
\* Here the objects Reconcile fetches are kept in cluster, so that what the
\* tracker was handed can be compared with what the API server holds.
\* Resource a is a Kustomization of KsSamples, a HelmRelease of HrSamples
\* or nothing: every pair of revisions with no condition or with
\* Ready/False alone, and every condition list of up to MaxScan conditions
\* on revision s1.  When the
\* Kustomization exists the HelmRelease beside it is one of BesideHr.
\* Resource b is a Kustomization failing on s1, which gives the tracker
\* entries for a to meet.
ReadyFalse == [type |-> "Ready", status |-> "False"]

ScanLists == UNION {[1 .. n -> Conditions] : n \in 0 .. MaxScan}

KsSamples ==
    [found : {TRUE}, attempted : Revisions, applied : Revisions,
     conditions : {<<>>, <<ReadyFalse>>}]
       \cup [found : {TRUE}, attempted : {"s1"}, applied : {""},
             conditions : ScanLists]

HrSamples ==
    [found : {TRUE}, attempted : Revisions, conditions : {<<>>, <<ReadyFalse>>}]
       \cup [found : {TRUE}, attempted : {"s1"}, conditions : ScanLists]

BesideHr ==
    {NotFoundHr,
     [found |-> TRUE, attempted |-> "s2", conditions |-> <<ReadyFalse>>],
     [found |-> TRUE, attempted |-> "s1", conditions |-> <<>>]}

Objects ==
    {[ks |-> NotFoundKs, hr |-> h] : h \in HrSamples \cup {NotFoundHr}}
       \cup {[ks |-> k, hr |-> h] : k \in KsSamples, h \in BesideHr}

Neighbour ==
    [ks |-> [found |-> TRUE, attempted |-> "s1", applied |-> "",
             conditions |-> <<ReadyFalse>>],
     hr |-> NotFoundHr]

AdapterInit ==
    /\ now = 0
    /\ DebounceSeconds \in DebounceValues
    /\ revertMode \in RevertModes
    /\ pendingSHAs = <<>>
    /\ completedSHAs = {}
    /\ revertCalls = [s \in Revisions |-> 0]
    /\ httpPosts = [s \in Revisions |-> 0]
    /\ last = NoEvaluation
    /\ cancelled = {}
    /\ workers = [w \in Workers |-> Idle]
    /\ fatal = FALSE
    /\ due = [n \in Names |-> 0 - 1]
    /\ \E o \in Objects : cluster = [n \in Names |-> IF n = "a" THEN o ELSE Neighbour]
    /\ boot = FirstBoot

\* Reconcile (lines 167-202) for request req: both Gets read the cluster.
AdapterReconcile(req) ==
    \E net \in NetResults :
        /\ ReconcileWith(req, Probe(cluster[req].ks, cluster[req].hr), net)
        /\ UNCHANGED <<now, DebounceSeconds, revertMode, workers, fatal, due,
                       cluster, boot>>

AdapterNext ==
    \/ \E req \in Names : AdapterReconcile(req)
    \/ Tick

AdapterSpec == AdapterInit /\ [][AdapterNext]_vars

\* ------------------------------------------------------ process restarts
RestartPersisting ==
    /\ boot.n < MaxBoots
    /\ boot' = [n |-> boot.n + 1, at |-> now]
    /\ last' = NoEvaluation
    /\ cancelled' = {}
    /\ UNCHANGED <<now, DebounceSeconds, revertMode, pendingSHAs, completedSHAs,
                   revertCalls, httpPosts, workers, fatal, due, cluster>>

\* The process ends and main runs again: NewRollbackController (lines
\* 36-48) makes both maps anew; nothing was written anywhere else.  The
\* environment of the deployment stays as it was, and so do the merge
\* requests already posted (revertCalls, httpPosts).
Restart ==
    /\ boot.n < MaxBoots
    /\ boot' = [n |-> boot.n + 1, at |-> now]
    /\ pendingSHAs' = <<>>
    /\ completedSHAs' = {}
    /\ last' = NoEvaluation
    /\ cancelled' = {}
    /\ UNCHANGED <<now, DebounceSeconds, revertMode, revertCalls, httpPosts,
                   workers, fatal, due, cluster>>

\* Across a restart the cluster stays as it is and each resource keeps
\* failing on its revision: a is the Kustomization failing on s1, b is any
\* single object with a revision and Ready/False as its only condition.
StillFailing ==
    {o \in Objects :
        /\ o.ks.found # o.hr.found
        /\ ~IsReady(IF o.ks.found THEN o.ks.conditions ELSE o.hr.conditions)
        /\ Len(IF o.ks.found THEN o.ks.conditions ELSE o.hr.conditions) = 1
        /\ (IF o.ks.found THEN KustomizationSha(o.ks) ELSE HelmReleaseSha(o.hr)) # ""}

RestartInit ==
    /\ now = 0
    /\ DebounceSeconds \in DebounceValues
    /\ revertMode \in RevertModes
    /\ pendingSHAs = <<>>
    /\ completedSHAs = {}
    /\ revertCalls = [s \in Revisions |-> 0]
    /\ httpPosts = [s \in Revisions |-> 0]
    /\ last = NoEvaluation
    /\ cancelled = {}
    /\ workers = [w \in Workers |-> Idle]
    /\ fatal = FALSE
    /\ due = [n \in Names |-> 0 - 1]
    /\ \E o \in StillFailing :
          cluster = [n \in Names |-> IF n = "a" THEN Neighbour ELSE o]
    /\ boot = FirstBoot

RestartNext ==
    \/ \E req \in Names : AdapterReconcile(req)
    \/ Tick
    \/ Restart

RestartSpec == RestartInit /\ [][RestartNext]_vars


\* ------------------------------------------- concurrent reconcile workers
\* handleResource takes no lock.  Each worker runs it one statement at a
\* time (pc names the source line of the next statement); statements of
\* different workers interleave.  The framework hands a resource to one
\* worker at a time.  The ghost records last and cancelled belong to the
\* sequential specification and are not kept here.
Busy(w) == workers[w].pc # "idle"

OtherVars == <<DebounceSeconds, revertMode, last, cancelled, due, cluster, boot>>

Goto(w, line) == [workers EXCEPT ![w].pc = line]

Return(w) == [workers EXCEPT ![w] = Idle]

\* Reconcile up to the first map access of handleResource (lines 167-183,
\* 53-57): the probe, the empty-sha return and the branch on ready.
Start(w, req) ==
    /\ ~fatal
    /\ ~Busy(w)
    /\ \A v \in Workers : Busy(v) => workers[v].req # req
    /\ \E got \in Observations :
          /\ got.kind # "none"
          /\ ~NoRevision(got.sha)
          /\ workers' = [workers EXCEPT ![w] =
                            [pc |-> IF got.ready THEN "L79" ELSE "L58",
                             req |-> req, sha |-> got.sha, ready |-> got.ready,
                             t |-> 0]]
    /\ UNCHANGED <<now, pendingSHAs, completedSHAs, revertCalls, httpPosts,
                   fatal, OtherVars>>

\* line 58: if r.completedSHAs[sha] { return 0 }
ReadCompleted(w) ==
    /\ ~fatal
    /\ workers[w].pc = "L58"
    /\ workers' = IF AlreadyReverted(completedSHAs, workers[w].sha)
                  THEN Return(w)
                  ELSE Goto(w, "L61")
    /\ UNCHANGED <<now, pendingSHAs, completedSHAs, revertCalls, httpPosts,
                   fatal, OtherVars>>

\* line 61: if t, ok := r.pendingSHAs[sha]; ok
ReadPending(w) ==
    /\ ~fatal
    /\ workers[w].pc = "L61"
    /\ workers' = IF workers[w].sha \in DOMAIN pendingSHAs
                  THEN [workers EXCEPT ![w].pc = "L62",
                                       ![w].t = pendingSHAs[workers[w].sha]]
                  ELSE Goto(w, "L75")
    /\ UNCHANGED <<now, pendingSHAs, completedSHAs, revertCalls, httpPosts,
                   fatal, OtherVars>>

\* lines 62-64, 72: elapsed := time.Since(t); fire or return the rest
CheckElapsed(w) ==
    /\ ~fatal
    /\ workers[w].pc = "L62"
    /\ workers' = IF DebounceElapsed(Since(workers[w].t, now), DebounceSeconds)
                  THEN Goto(w, "L66")
                  ELSE Return(w)
    /\ UNCHANGED <<now, pendingSHAs, completedSHAs, revertCalls, httpPosts,
                   fatal, OtherVars>>

CallRevertSkipped(w) ==
    /\ ~fatal
    /\ workers[w].pc = "L66"
    /\ workers' = Goto(w, "L67")
    /\ UNCHANGED <<now, pendingSHAs, completedSHAs, revertCalls, httpPosts,
                   fatal, OtherVars>>

\* line 66: r.createGitlabRevertMR(sha)
CallRevert(w) ==
    /\ ~fatal
    /\ workers[w].pc = "L66"
    /\ \E net \in NetResults :
          LET call == createGitlabRevertMR(revertMode, net)
          IN  /\ revertCalls' = Bump(revertCalls, workers[w].sha, TRUE)
              /\ httpPosts' = Bump(httpPosts, workers[w].sha, call.posted)
    /\ workers' = Goto(w, "L67")
    /\ UNCHANGED <<now, pendingSHAs, completedSHAs, fatal, OtherVars>>

\* line 67: r.completedSHAs[sha] = true
WriteCompleted(w) ==
    /\ ~fatal
    /\ workers[w].pc = "L67"
    /\ completedSHAs' = MarkCompleted(completedSHAs, workers[w].sha, "none")
    /\ workers' = Goto(w, "L68")
    /\ UNCHANGED <<now, pendingSHAs, revertCalls, httpPosts, fatal, OtherVars>>

\* lines 68-69: delete(r.pendingSHAs, sha); return 0
DeleteFired(w) ==
    /\ ~fatal
    /\ workers[w].pc = "L68"
    /\ pendingSHAs' = ForgetPending(pendingSHAs, workers[w].sha)
    /\ workers' = Return(w)
    /\ UNCHANGED <<now, completedSHAs, revertCalls, httpPosts, fatal, OtherVars>>

\* lines 75-76: r.pendingSHAs[sha] = time.Now(); return the window
WriteFirstSeen(w) ==
    /\ ~fatal
    /\ workers[w].pc = "L75"
    /\ pendingSHAs' = FirstSeen(pendingSHAs, workers[w].sha, now)
    /\ workers' = Return(w)
    /\ UNCHANGED <<now, completedSHAs, revertCalls, httpPosts, fatal, OtherVars>>

\* lines 79-80: delete(r.pendingSHAs, sha); return 0
DeleteHealthy(w) ==
    /\ ~fatal
    /\ workers[w].pc = "L79"
    /\ pendingSHAs' = MapDelete(pendingSHAs, workers[w].sha)
    /\ workers' = Return(w)
    /\ UNCHANGED <<now, completedSHAs, revertCalls, httpPosts, fatal, OtherVars>>

PendingReaders == {"L61"}
PendingWriters == {"L68", "L75", "L79"}
CompletedReaders == {"L58"}
CompletedWriters == {"L67"}

\* Two workers about to access the same map, one of them writing.
Racing(v, w) ==
    /\ v # w
    /\ \/ /\ workers[v].pc \in PendingWriters
           /\ workers[w].pc \in PendingWriters \cup PendingReaders
        \/ /\ workers[v].pc \in CompletedWriters
           /\ workers[w].pc \in CompletedWriters \cup CompletedReaders

\* An unsynchronised map access that overlaps a map write is a data race:
\* the accesses take effect in either order (the steps above), or the Go
\* runtime detects the overlap and ends the process.
FatalMapRace ==
    /\ ~fatal
    /\ \E v, w \in Workers : Racing(v, w)
    /\ fatal' = TRUE
    /\ UNCHANGED <<now, pendingSHAs, completedSHAs, revertCalls, httpPosts,
                   workers, OtherVars>>

ConcTick ==
    /\ ~fatal
    /\ now < MaxTime
    /\ now' = now + 1
    /\ UNCHANGED <<pendingSHAs, completedSHAs, revertCalls, httpPosts,
                   workers, fatal, OtherVars>>

ConcNext ==
    \/ \E w \in Workers, req \in Names : Start(w, req)
    \/ \E w \in Workers : ReadCompleted(w)
    \/ \E w \in Workers : ReadPending(w)
    \/ \E w \in Workers : CheckElapsed(w)
    \/ \E w \in Workers : CallRevert(w)
    \/ \E w \in Workers : WriteCompleted(w)
    \/ \E w \in Workers : DeleteFired(w)
    \/ \E w \in Workers : WriteFirstSeen(w)
    \/ \E w \in Workers : DeleteHealthy(w)
    \/ FatalMapRace
    \/ ConcTick

ConcSpec == Init /\ [][ConcNext]_vars

\* ---------------------------------------- one worker, statement by statement
\* The default controller runs a single reconcile worker: the statements of
\* handleResource in source order, with the clock free to move in between.
StepNext ==
    \/ \E req \in Names : Start("w1", req)
    \/ ReadCompleted("w1")
    \/ ReadPending("w1")
    \/ CheckElapsed("w1")
    \/ CallRevert("w1")
    \/ WriteCompleted("w1")
    \/ DeleteFired("w1")
    \/ WriteFirstSeen("w1")
    \/ DeleteHealthy("w1")
    \/ ConcTick

StepSpec == Init /\ [][StepNext]_vars

\* ------------------------------------------------- requeue and liveness
\* The framework's side of Result{RequeueAfter}: a positive delay schedules
\* a trigger for the resource at now + delay; due[n] = -1 means none is
\* scheduled, and a trigger is delivered at or after its due time.
\* Resource "a" is a Kustomization that fails on revision "s1" for good;
\* its triggers are the initial one and the requeues.  Resource "b" may be
\* anything and is triggered whenever it changes.
StuckObservation == [kind |-> "Kustomization", sha |-> "s1", ready |-> FALSE]

RequeueAt(delay) == IF delay > 0 THEN now + delay ELSE 0 - 1

LiveReconcileStuck ==
    /\ due["a"] >= 0
    /\ now >= due["a"]
    /\ \E net \in NetResults : ReconcileWith("a", StuckObservation, net)
    /\ due' = [due EXCEPT !["a"] = RequeueAt(last'.delay)]
    /\ UNCHANGED <<now, DebounceSeconds, revertMode, workers, fatal, cluster, boot>>

LiveReconcileOther ==
    /\ \E got \in Observations, net \in NetResults :
          ReconcileWith("b", got, net)
    /\ due' = [due EXCEPT !["b"] = RequeueAt(last'.delay)]
    /\ UNCHANGED <<now, DebounceSeconds, revertMode, workers, fatal, cluster, boot>>

Earlier(t) == IF t > 0 THEN t - 1 ELSE t

\* One second passes.  The clock's origin moves with it, so that now stays
\* at MaxTime and every stored time is one second further in the past; a
\* time at the origin stands for MaxTime seconds ago or more, which is no
\* less than any debounce window.
LiveTick ==
    /\ pendingSHAs' = [s \in DOMAIN pendingSHAs |-> Earlier(pendingSHAs[s])]
    /\ due' = [n \in Names |-> Earlier(due[n])]
    /\ last' = NoEvaluation
    /\ UNCHANGED <<now, DebounceSeconds, revertMode, completedSHAs,
                   revertCalls, httpPosts, cancelled, workers, fatal, cluster, boot>>

LiveInit ==
    /\ now = MaxTime
    /\ DebounceSeconds = MaxDebounce
    /\ revertMode \in RevertModes
    /\ pendingSHAs = <<>>
    /\ completedSHAs = {}
    /\ revertCalls = [s \in Revisions |-> 0]
    /\ httpPosts = [s \in Revisions |-> 0]
    /\ last = NoEvaluation
    /\ cancelled = {}
    /\ workers = [w \in Workers |-> Idle]
    /\ fatal = FALSE
    /\ due = [n \in Names |-> IF n = "a" THEN MaxTime ELSE 0 - 1]
    /\ cluster = [n \in Names |-> Absent]
    /\ boot = FirstBoot

LiveNext ==
    \/ LiveReconcileStuck
    \/ LiveReconcileOther
    \/ LiveTick

\* Time passes, and a trigger that is due is delivered.
LiveSpec ==
    /\ LiveInit
    /\ [][LiveNext]_vars
    /\ WF_vars(LiveTick)
    /\ WF_vars(LiveReconcileStuck)

\* ------------------------------------------------------------ properties
\* The latest Reconcile at this instant called handleResource.
Evaluated == last.kind \in {"Kustomization", "HelmRelease"}

FailedOutcomes == {"reqerr", "neterr", "non2xx"}

\* C1: createGitlabRevertMR is invoked at most once for each revision
\* identifier, and a failing evaluation of an identifier already in
\* completedSHAs invokes nothing and returns delay 0.
AtMostOnceRemediation ==
    /\ \A s \in Revisions : revertCalls[s] <= 1
    /\ (Evaluated /\ ~last.ready /\ last.pre = "completed")
          => (~last.fired /\ last.delay = 0 /\ revertCalls[last.sha] = 1)

AtMostOnceWitness ==
    /\ Evaluated /\ ~last.ready /\ last.pre = "completed"
    /\ revertCalls[last.sha] = 1
    /\ last.delay = 0

\* C2: a failing evaluation of a non-empty identifier that is not completed
\* invokes the revert if and only if the identifier is already pending with
\* now - firstSeen >= DebounceSeconds; never on the inserting evaluation.
DebounceGate ==
    [][(/\ now' = now
        /\ last'.kind \in {"Kustomization", "HelmRelease"}
        /\ ~last'.ready
        /\ last'.sha # ""
        /\ last'.sha \notin completedSHAs)
       => /\ last'.fired <=> /\ last'.sha \in DOMAIN pendingSHAs
                              /\ now - pendingSHAs[last'.sha] >= DebounceSeconds
          /\ last'.fired <=> revertCalls'[last'.sha] = revertCalls[last'.sha] + 1
          /\ last'.fired \/ revertCalls' = revertCalls]_vars

DebounceGateWitness ==
    /\ Evaluated /\ last.fired /\ last.pre = "pending"
    /\ DebounceSeconds = MaxDebounce
    /\ now = DebounceSeconds + 1
    /\ revertCalls[last.sha] = 1

\* C4: a healthy evaluation of a pending identifier removes it, invokes
\* nothing and returns 0; the next failing evaluation of that identifier is
\* a fresh first observation (first seen now, delay = the full window).
RecoveryCancels ==
    /\ (Evaluated /\ last.ready /\ last.pre = "pending")
          => /\ last.sha \notin DOMAIN pendingSHAs
             /\ last.sha \in cancelled
             /\ ~last.fired
             /\ last.delay = 0
             /\ revertCalls[last.sha] = 0
    /\ (Evaluated /\ ~last.ready /\ last.sha \in cancelled /\ last.pre = "untracked")
          => /\ last.sha \in DOMAIN pendingSHAs
             /\ pendingSHAs[last.sha] = now
             /\ last.delay = DebounceSeconds
             /\ ~last.fired

RecoveryCancelsWitness ==
    /\ Evaluated /\ ~last.ready /\ last.pre = "untracked"
    /\ last.sha \in cancelled
    /\ DebounceSeconds = MaxDebounce
    /\ now > 0
    /\ last.sha \in DOMAIN pendingSHAs /\ pendingSHAs[last.sha] = now

\* C6: no revision identifier is at once a key of pendingSHAs and a member
\* of completedSHAs.
MutualExclusion == (DOMAIN pendingSHAs) \cap completedSHAs = {}

MutualExclusionWitness ==
    /\ Evaluated /\ last.fired
    /\ last.sha \in completedSHAs
    /\ DOMAIN pendingSHAs # {}

\* C8: when the remediation call fails, the identifier is still moved from
\* pendingSHAs to completedSHAs, the evaluation returns 0, and the call is
\* made once only.
FailedRemediationCompletes ==
    /\ (Evaluated /\ last.fired /\ last.outcome \in FailedOutcomes)
          => /\ last.sha \in completedSHAs
             /\ last.sha \notin DOMAIN pendingSHAs
             /\ last.delay = 0
    /\ \A s \in completedSHAs : revertCalls[s] = 1 /\ httpPosts[s] <= 1
    /\ \A s \in Revisions : revertCalls[s] >= 1 => s \in completedSHAs

FailedRemediationWitness ==
    /\ Evaluated /\ last.fired /\ last.outcome = "neterr"
    /\ httpPosts[last.sha] = 1
    /\ last.sha \in completedSHAs

\* C9: an evaluation with identifier "" returns 0, invokes nothing and
\* leaves pendingSHAs and completedSHAs unchanged.
EmptyIdentifierNoOp ==
    [][(/\ now' = now
        /\ last'.kind \in {"Kustomization", "HelmRelease"}
        /\ last'.sha = "")
       => /\ pendingSHAs' = pendingSHAs
          /\ completedSHAs' = completedSHAs
          /\ revertCalls' = revertCalls
          /\ httpPosts' = httpPosts
          /\ last'.delay = 0
          /\ ~last'.fired]_vars

EmptyIdentifierWitness ==
    /\ Evaluated /\ last.sha = "" /\ ~last.ready
    /\ last.delay = 0
    /\ DOMAIN pendingSHAs # {}
    /\ completedSHAs # {}

\* C10: an identifier in completedSHAs stays there under every later
\* evaluation; a healthy evaluation does not re-arm it, and a failing one
\* creates no pending entry, invokes nothing and returns 0.
CompletedPermanent ==
    [][/\ completedSHAs \subseteq completedSHAs'
       /\ (/\ now' = now
           /\ last'.kind \in {"Kustomization", "HelmRelease"}
           /\ last'.sha \in completedSHAs)
          => /\ last'.sha \notin DOMAIN pendingSHAs'
             /\ revertCalls' = revertCalls
             /\ last'.delay = 0
             /\ ~last'.fired]_vars

CompletedPermanentWitness ==
    /\ Evaluated /\ last.ready /\ last.pre = "completed"
    /\ last.sha \in completedSHAs
    /\ revertCalls[last.sha] = 1

\* C5: when a resource whose failure started a pending entry is observed
\* healthy before the window elapses, that entry is gone, whichever
\* revision the healthy observation reports.
RecoveryCancelsResource ==
    [][(/\ now' = now
        /\ Evaluated /\ ~last.ready /\ last.pre = "untracked" /\ last.sha # ""
        /\ DebounceSeconds > 0
        /\ last'.req = last.req
        /\ last'.kind \in {"Kustomization", "HelmRelease"}
        /\ last'.ready)
       => last.sha \notin DOMAIN pendingSHAs']_vars

\* C7: under concurrent evaluations of several resources on the same
\* tracker, createGitlabRevertMR is still invoked at most once for each
\* identifier.
ConcurrentAtMostOnce == \A s \in Revisions : revertCalls[s] <= 1

\* C3: once the resource that stays Ready=False on revision s1 has been
\* observed failing, and each requeue it is given is delivered, the revert
\* for s1 is eventually invoked, whatever the other resources report.
RemediationEventually ==
    (Evaluated /\ last.req = "a" /\ ~last.ready) ~> (revertCalls["s1"] >= 1)

\* C11: in the dry run (REVERT_MODE=echo) no HTTP POST is made for any
\* identifier, and the tracker moves exactly as it does in live mode: maps,
\* delay and firing of every evaluation equal those of the live evaluation.
DryRunNoNetwork ==
    /\ [](revertMode = "echo" =>
            /\ \A s \in Revisions : httpPosts[s] = 0
            /\ (Evaluated /\ last.fired) =>
                  /\ last.outcome = "echo"
                  /\ last.sha \in completedSHAs
                  /\ last.sha \notin DOMAIN pendingSHAs)
    /\ [][(/\ now' = now
            /\ revertMode = "echo"
            /\ last'.kind \in {"Kustomization", "HelmRelease"})
           => LET live == handleResource(pendingSHAs, completedSHAs, last'.sha,
                                         last'.ready, now, DebounceSeconds, "", "2xx")
              IN  /\ pendingSHAs' = live.pending
                  /\ completedSHAs' = live.completed
                  /\ last'.delay = live.delay
                  /\ last'.fired = live.fired
                  /\ live.posted = last'.fired
                  /\ httpPosts' = httpPosts]_vars

DryRunWitness ==
    /\ revertMode = "echo"
    /\ Evaluated /\ last.fired /\ last.outcome = "echo"
    /\ completedSHAs = SHAs
    /\ \A s \in SHAs : revertCalls[s] = 1 /\ httpPosts[s] = 0

\* C13: while an identifier stays pending its first-seen time never
\* changes; a failing evaluation that leaves it pending returns exactly
\* DebounceSeconds - (now - firstSeen); an entry leaves pendingSHAs only by
\* an evaluation of that identifier that fires or is healthy.
FirstSeenNeverReset ==
    [][/\ \A s \in (DOMAIN pendingSHAs) \cap (DOMAIN pendingSHAs') :
             pendingSHAs'[s] = pendingSHAs[s]
       /\ \A s \in (DOMAIN pendingSHAs) \ (DOMAIN pendingSHAs') :
             /\ now' = now
             /\ last'.kind \in {"Kustomization", "HelmRelease"}
             /\ last'.sha = s
             /\ last'.fired \/ last'.ready
       /\ (/\ now' = now
           /\ last'.kind \in {"Kustomization", "HelmRelease"}
           /\ ~last'.ready
           /\ last'.sha \in DOMAIN pendingSHAs
           /\ last'.sha \in DOMAIN pendingSHAs')
          => /\ last'.delay = DebounceSeconds - (now - pendingSHAs[last'.sha])
             /\ last'.delay <= DebounceSeconds
             /\ ~last'.fired]_vars

FirstSeenWitness ==
    /\ Evaluated /\ ~last.ready /\ last.pre = "pending" /\ ~last.fired
    /\ last.sha \in DOMAIN pendingSHAs
    /\ pendingSHAs[last.sha] < now
    /\ last.delay = DebounceSeconds - (now - pendingSHAs[last.sha])
    /\ last.delay < DebounceSeconds

\* C14: every failing evaluation that leaves its identifier pending returns
\* a strictly positive delay (handed on as RequeueAfter), for every window
\* the configuration accepts, 0 included.
RequeueArmedWhilePending ==
    (Evaluated /\ ~last.ready /\ last.sha \in DOMAIN pendingSHAs)
       => last.delay > 0

\* C20: an evaluation of identifier X leaves every other identifier's
\* pending membership, first-seen time, completed membership and call count
\* as they were.
PerIdentifierFrame ==
    [][(now' = now)
       => \A y \in Revisions \ {last'.sha} :
             /\ (y \in DOMAIN pendingSHAs) <=> (y \in DOMAIN pendingSHAs')
             /\ (y \in DOMAIN pendingSHAs) => pendingSHAs'[y] = pendingSHAs[y]
             /\ (y \in completedSHAs) <=> (y \in completedSHAs')
             /\ revertCalls'[y] = revertCalls[y]
             /\ httpPosts'[y] = httpPosts[y]]_vars

PerIdentifierWitness ==
    /\ Evaluated /\ last.ready /\ last.pre = "pending"
    /\ last.sha \notin DOMAIN pendingSHAs
    /\ \E y \in SHAs \ {last.sha} :
          y \in DOMAIN pendingSHAs /\ pendingSHAs[y] < now

\* C12: under concurrent evaluations no worker is at a map access while
\* some identifier is both pending and completed, other than the worker
\* that is completing that identifier's move.
ConcurrentMutualExclusion ==
    \A w \in Workers :
        \A s \in (DOMAIN pendingSHAs) \cap completedSHAs :
            (workers[w].pc \in PendingReaders \cup PendingWriters
                                \cup CompletedReaders \cup CompletedWriters)
               => (workers[w].pc = "L68" /\ workers[w].sha = s)

\* C15: between evaluations an identifier is completed exactly when the
\* revert was invoked for it, once; inside the firing evaluation the call
\* comes first, then the insertion into completedSHAs, then the removal
\* from pendingSHAs.
CompletedMatchesCalls ==
    LET w == workers["w1"]
    IN  /\ \A s \in completedSHAs : revertCalls[s] = 1
        /\ \A s \in Revisions : revertCalls[s] <= 1
        /\ w.pc \notin {"L67", "L68"}
              => \A s \in Revisions : revertCalls[s] = 1 => s \in completedSHAs
        /\ w.pc = "L66"
              => /\ revertCalls[w.sha] = 0
                 /\ w.sha \notin completedSHAs
                 /\ w.sha \in DOMAIN pendingSHAs
        /\ w.pc = "L67"
              => /\ revertCalls[w.sha] = 1
                 /\ w.sha \notin completedSHAs
                 /\ w.sha \in DOMAIN pendingSHAs
        /\ w.pc = "L68"
              => /\ revertCalls[w.sha] = 1
                 /\ w.sha \in completedSHAs
                 /\ w.sha \in DOMAIN pendingSHAs

CompletedMatchesWitness ==
    /\ workers["w1"].pc = "L67"
    /\ revertCalls[workers["w1"].sha] = 1
    /\ workers["w1"].sha \notin completedSHAs
    /\ completedSHAs # {}

\* C16: a trigger evaluates the Kustomization whenever its fetch succeeds,
\* even with a HelmRelease of the same name beside it; it evaluates the
\* HelmRelease only when the Kustomization fetch fails; when both fetches
\* fail nothing is evaluated: no map changes, no revert is made and no
\* requeue is asked for.
ProbingOrder ==
    [][now' = now =>
          LET o == cluster[last'.req]
          IN  /\ o.ks.found => last'.kind = "Kustomization"
              /\ (~o.ks.found /\ o.hr.found) => last'.kind = "HelmRelease"
              /\ (~o.ks.found /\ ~o.hr.found) =>
                    /\ last'.kind = "none"
                    /\ last'.delay = 0
                    /\ ~last'.fired
                    /\ pendingSHAs' = pendingSHAs
                    /\ completedSHAs' = completedSHAs
                    /\ revertCalls' = revertCalls
                    /\ httpPosts' = httpPosts]_vars

ProbingOrderWitness ==
    /\ last.req = "a"
    /\ cluster["a"].ks.found
    /\ cluster["a"].hr.found
    /\ cluster["a"].hr.attempted = "s2"
    /\ ~IsReady(cluster["a"].hr.conditions)
    /\ last.kind = "Kustomization"
    /\ last.sha = "s1"
    /\ "s2" \notin DOMAIN pendingSHAs

\* C17: the tracker is handed ready = false exactly when the evaluated
\* object's condition list holds a condition of type "Ready" with status
\* "False"; in every other case (no condition, no Ready condition, Ready
\* with "True" or "Unknown") it is handed ready = true, after which the
\* reported revision is not pending.
ReadinessDerivation ==
    last.kind \in {"Kustomization", "HelmRelease"} =>
        LET o == cluster[last.req]
            conds == IF last.kind = "Kustomization"
                     THEN o.ks.conditions
                     ELSE o.hr.conditions
        IN  /\ (~last.ready) <=> (\E i \in 1 .. Len(conds) : conds[i] = ReadyFalse)
            /\ (last.ready /\ last.sha # "") => last.sha \notin DOMAIN pendingSHAs

ReadinessWitness ==
    /\ last.req = "a"
    /\ last.kind = "Kustomization"
    /\ last.ready
    /\ last.pre = "pending"
    /\ last.sha \notin DOMAIN pendingSHAs
    /\ Len(cluster["a"].ks.conditions) = MaxScan
    /\ \E i \in 1 .. MaxScan :
          cluster["a"].ks.conditions[i] = [type |-> "Ready", status |-> "Unknown"]

\* C18: a Kustomization is evaluated under LastAttemptedRevision when that
\* is not empty and under LastAppliedRevision otherwise; a HelmRelease under
\* LastAttemptedRevision alone; an evaluation under the empty revision
\* tracks nothing, reverts nothing and asks for no requeue.
RevisionDerivation ==
    /\ last.kind = "Kustomization" =>
          LET ks == cluster[last.req].ks
          IN  /\ ks.attempted # "" => last.sha = ks.attempted
              /\ ks.attempted = "" => last.sha = ks.applied
    /\ last.kind = "HelmRelease" => last.sha = cluster[last.req].hr.attempted
    /\ (last.kind \in {"Kustomization", "HelmRelease"} /\ last.sha = "") =>
          (last.delay = 0 /\ ~last.fired /\ last.pre = "untracked")
    /\ "" \notin DOMAIN pendingSHAs
    /\ "" \notin completedSHAs
    /\ revertCalls[""] = 0

RevisionWitness ==
    /\ last.req = "a"
    /\ last.kind = "Kustomization"
    /\ cluster["a"].ks.attempted = ""
    /\ cluster["a"].ks.applied = "s2"
    /\ last.sha = "s2"
    /\ "s2" \in DOMAIN pendingSHAs

\* C19: a restart leaves both maps empty; afterwards every pending entry
\* dates from the running process, a failing evaluation of a revision the
\* running process does not track stores the current time and returns the
\* whole window, and no revert fires before a whole window has passed since
\* the entry was made, hence since the restart.
RestartForgets ==
    /\ [][boot' # boot => (pendingSHAs' = <<>> /\ completedSHAs' = {})]_vars
    /\ [](\A s \in DOMAIN pendingSHAs : pendingSHAs[s] >= boot.at)
    /\ []((last.kind \in {"Kustomization", "HelmRelease"} /\ ~last.ready
             /\ last.sha # "" /\ last.pre = "untracked")
            => (/\ last.delay = DebounceSeconds
                /\ ~last.fired
                /\ last.sha \in DOMAIN pendingSHAs
                /\ pendingSHAs[last.sha] = now))
    /\ [](last.fired => (last.pre = "pending" /\ now - boot.at >= DebounceSeconds))

RestartWitness ==
    /\ boot.n = 2
    /\ boot.at > 0
    /\ DebounceSeconds = MaxDebounce
    /\ last.kind = "Kustomization"
    /\ ~last.ready
    /\ last.pre = "untracked"
    /\ last.delay = MaxDebounce
    /\ revertCalls[last.sha] = 1
    /\ pendingSHAs[last.sha] = boot.at

====
